---- MODULE Spec2Model ----
(***************************************************************************)
(* captain (src/main.go): a relay that keeps the last accepted signed      *)
(* command, a sender that posts signed commands, and an agent that polls   *)
(* the relay, verifies, executes and reports.                              *)
(*                                                                         *)
(* Time is counted in clock instants ("ticks"); TicksPerMilli instants     *)
(* make one millisecond, so that two timestamps can fall in the same       *)
(* millisecond as they do with Go's nanosecond clock.  Tick 0 is the Unix  *)
(* epoch.  Strings and byte slices are sequences of byte values.           *)
(***************************************************************************)
EXTENDS Integers, Sequences, FiniteSets, TLC

\* ---------------------------------------------------------------- bounds
\* instants per millisecond (1000000 ns in ttb, coarsened)
TicksPerMilli == 2
\* the relay's accept window in milliseconds (200*time.Millisecond)
RelayTTL == 200
\* digest length in bytes (blake3.New(32, ...))
DigestLen == 32
\* the -poll flag of the agent, in milliseconds
PollMillis == 1
\* the first instant of a behaviour, and how many instants it may last
Start == 20500
Horizon == 4
\* "10 seconds in the past", in milliseconds
LongAgo == 10000
\* how many times the agent polls in a session (SpecSession)
MaxPolls == 3
\* how many requests the relay gets in one behaviour of SpecServe
MaxRequests == 3

RelayTTLTicks == RelayTTL * TicksPerMilli
PollTicks == PollMillis * TicksPerMilli
MaxNow == Start + Horizon

\* ------------------------------------------------------- bytes and strings
\* "a", "b", "ab" as byte sequences
StrA == <<97>>
StrB == <<98>>
StrAB == <<97, 98>>
Secrets == {1, 2}
Names == {StrA, StrAB}
ArgLists == {<< >>, <<StrB>>}
Msgs == {StrA, StrAB}

\* hex.EncodeToString / hex.DecodeString (encoding/hex)
HexChar(n) == IF n < 10 THEN 48 + n ELSE 87 + n

EncodeToString(b) ==
  LET src == b IN
  [i \in 1..(2 * Len(src)) |->
     IF i % 2 = 1 THEN HexChar(src[(i + 1) \div 2] \div 16)
                  ELSE HexChar(src[i \div 2] % 16)]

IsHexChar(c) == c \in 48..57 \/ c \in 97..102 \/ c \in 65..70

FromHexChar(c) ==
  IF c \in 48..57 THEN c - 48 ELSE IF c \in 97..102 THEN c - 87 ELSE c - 55

\* err == nil of hex.DecodeString: even length, every character a hex digit
HexDecodeOK(s) == Len(s) % 2 = 0 /\ \A i \in 1..Len(s) : IsHexChar(s[i])

HexDecode(s) ==
  LET src == s IN
  [i \in 1..(Len(src) \div 2) |->
     16 * FromHexChar(src[2 * i - 1]) + FromHexChar(src[2 * i])]

\* ------------------------------------------------------------ authenticator
\* keySum := blake3.Sum256(secret): a one-way hash, modelled as an injective
\* map from the secrets of the model to key bytes.
KeySum(secret) == 16 * secret + 1

\* ttb: the millisecond count of t as 8 little-endian bytes
RECURSIVE LittleEndian(_, _)
LittleEndian(n, k) ==
  IF k = 0 THEN << >> ELSE <<n % 256>> \o LittleEndian(n \div 256, k - 1)

ttb(t) == LittleEndian(t \div TicksPerMilli, 8)

\* The keyed blake3 digest of the bytes written since Reset: a fixed-length,
\* deterministic function of (key, bytes) that is collision-free on the
\* inputs of the model (key, length, the bytes, zero padding).
Digest(key, written) ==
  LET w == written
      n == Len(w)
  IN [i \in 1..DigestLen |->
        IF i = 1 THEN key
        ELSE IF i = 2 THEN n
        ELSE IF i - 2 <= n THEN w[i - 2] ELSE 0]

RECURSIVE Concat(_)
Concat(ss) == IF ss = << >> THEN << >> ELSE Head(ss) \o Concat(Tail(ss))

\* the bytes signCmd / signLog write to the hasher, in order
CmdWritten(c) == ttb(c.Created) \o c.Name \o Concat(c.Args)
LogWritten(l) == ttb(l.Created) \o l.Msg

signCmd(c, key) == Digest(key, CmdWritten(c))
signLog(l, key) == Digest(key, LogWritten(l))

ErrNil == "nil"
ErrExpired == "payload expired"
ErrHex == "failed to decode sig hex"
ErrChecksum == "invalid checksum"

\* (variant: the window taken on both sides of the instant of the check)
ExpiredWindow(created, ttl, t) == t - created > ttl \/ created - t > ttl

\* (variant: a message exactly ttl old is already refused)
ExpiredAtBoundary(created, ttl, t) == t - created >= ttl

\* time.Since(c.Created) > ttl, checked at instant t
Expired(created, ttl, t) == t - created > ttl

\* (variant: the error of hex.DecodeString is not looked at)
verifyCmdSkipHex(c, key, ttl, t) ==
  IF Expired(c.Created, ttl, t) THEN ErrExpired
  ELSE IF signCmd(c, key) /= HexDecode(c.Sum) THEN ErrChecksum
  ELSE ErrNil

verifyCmd(c, key, ttl, t) ==
  IF Expired(c.Created, ttl, t) THEN ErrExpired
  ELSE IF ~HexDecodeOK(c.Sum) THEN ErrHex
  ELSE IF signCmd(c, key) /= HexDecode(c.Sum) THEN ErrChecksum
  ELSE ErrNil

\* (variant: the signature text is decoded before the age is looked at)
verifyLogHexFirst(l, key, ttl, t) ==
  IF ~HexDecodeOK(l.Sum) THEN ErrHex
  ELSE IF Expired(l.Created, ttl, t) THEN ErrExpired
  ELSE IF signLog(l, key) /= HexDecode(l.Sum) THEN ErrChecksum
  ELSE ErrNil

verifyLog(l, key, ttl, t) ==
  IF Expired(l.Created, ttl, t) THEN ErrExpired
  ELSE IF ~HexDecodeOK(l.Sum) THEN ErrHex
  ELSE IF signLog(l, key) /= HexDecode(l.Sum) THEN ErrChecksum
  ELSE ErrNil

\* a command / log entry as the sender and postLogMsg build it
Cmd(name, args, created, sum) ==
  [Name |-> name, Args |-> args, Created |-> created, Sum |-> sum]
Log(msg, created, sum) == [Msg |-> msg, Created |-> created, Sum |-> sum]

SignedCmd(name, args, created, secret) ==
  Cmd(name, args, created,
      EncodeToString(signCmd(Cmd(name, args, created, << >>), KeySum(secret))))

SignedLog(msg, created, secret) ==
  Log(msg, created,
      EncodeToString(signLog(Log(msg, created, << >>), KeySum(secret))))

\* ------------------------------------------------------------- wire format
\* An HTTP body: empty, bytes that are no JSON value of the expected shape,
\* or a JSON object with the fields it carries (json.Marshal / Decode).
EmptyBody == [kind |-> "empty"]
JunkBody == [kind |-> "junk"]

MarshalCmd(c) ==
  [kind |-> "json", Name |-> c.Name, Args |-> c.Args,
   Created |-> c.Created, Sum |-> c.Sum]

MarshalLog(l) ==
  [kind |-> "json", Msg |-> l.Msg, Sum |-> l.Sum, Created |-> l.Created]

\* a field the struct does not have, which Decode ignores
WithExtra(b) == [f \in DOMAIN b \cup {"Extra"} |-> IF f = "Extra" THEN 1 ELSE b[f]]

DecodeOK(b) == b.kind = "json"

\* dec.Decode(c) into a zero cmd: absent fields keep their zero value
DecodeCmd(b) ==
  [Name |-> IF "Name" \in DOMAIN b THEN b.Name ELSE << >>,
   Args |-> IF "Args" \in DOMAIN b THEN b.Args ELSE << >>,
   Created |-> IF "Created" \in DOMAIN b THEN b.Created ELSE 0,
   Sum |-> IF "Sum" \in DOMAIN b THEN b.Sum ELSE << >>]

DecodeLog(b) ==
  [Msg |-> IF "Msg" \in DOMAIN b THEN b.Msg ELSE << >>,
   Created |-> IF "Created" \in DOMAIN b THEN b.Created ELSE 0,
   Sum |-> IF "Sum" \in DOMAIN b THEN b.Sum ELSE << >>]

\* -------------------------------------------------------------------- state
VARIABLES
  now,          \* the wall clock, in ticks
  payload,      \* app.payload: the relay's slot (an HTTP body)
  resp,         \* the relay's answer to the request it handled last
  accepted,     \* the commands stored for the clients of PostCmd, oldest first
  agentSecret,  \* the -key flag of the agent
  pc,           \* where the obey loop stands
  wakeAt,       \* when the running time.Sleep ends
  fetched,      \* the body of the last GET response the agent received
  cur,          \* c: the command the iteration works on
  lastSum,      \* lastSum: signature bytes of the last command it ran
  result,       \* out and err of oscmd.Output()
  logReq,       \* the POST /log request of the agent, while in flight
  executed,     \* the commands handed to exec.Command, oldest first
  iter,         \* what the current iteration has done so far
  gets,         \* the instants at which the agent issued http.Get, oldest first
  probe,        \* one call of verifyCmd / verifyLog on its own (SpecVerify)
  payloadLen,   \* the len word of the slice a.payload (SpecServe)
  hasher,       \* a.hasher: the bytes written since the last Reset (SpecServe)
  goroutine     \* the request handlers that run at once (SpecServe)

vars == <<now, payload, resp, accepted, agentSecret, pc, wakeAt, fetched, cur,
          lastSum, result, logReq, executed, iter, gets, probe, payloadLen,
          hasher, goroutine>>

relayVars == <<payload, resp, accepted>>
agentVars == <<agentSecret, pc, wakeAt, fetched, cur, lastSum, result, logReq,
               executed, iter, gets>>
serveVars == <<payloadLen, hasher, goroutine>>

\* the -key flag of the relay
RelaySecret == 1
StatusOK == 200
StatusUnauthorized == 401
StatusInternalServerError == 500
\* how many commands the clients of PostCmd get stored in one behaviour
MaxAccepted == 2

\* -------------------------------------------------------------------- relay
Response(op, req, status, text, body, t) ==
  [op |-> op, req |-> req, status |-> status, text |-> text, body |-> body,
   at |-> t]

NoResponse == Response("none", EmptyBody, 0, "", EmptyBody, 0)

\* (variant: a command is stored only while the slot is empty)
handlePostCmdKeepFirst(body, slot, t) ==
  IF ~DecodeOK(body)
  THEN [status |-> StatusInternalServerError, text |-> "decode error",
        payload |-> slot]
  ELSE LET c == DecodeCmd(body)
           err == verifyCmd(c, KeySum(RelaySecret), RelayTTLTicks, t)
       IN IF err /= ErrNil
          THEN [status |-> StatusUnauthorized, text |-> err, payload |-> slot]
          ELSE [status |-> StatusOK, text |-> "ok",
                payload |-> IF slot = EmptyBody THEN MarshalCmd(c) ELSE slot]

\* (variant: the command is stored before it is verified)
handlePostCmdStoreFirst(body, slot, t) ==
  IF ~DecodeOK(body)
  THEN [status |-> StatusInternalServerError, text |-> "decode error",
        payload |-> slot]
  ELSE LET c == DecodeCmd(body)
           err == verifyCmd(c, KeySum(RelaySecret), RelayTTLTicks, t)
       IN IF err /= ErrNil
          THEN [status |-> StatusUnauthorized, text |-> err,
                payload |-> MarshalCmd(c)]
          ELSE [status |-> StatusOK, text |-> "ok", payload |-> MarshalCmd(c)]

\* (variant: a stored command is replaced only by one with a later Created)
handlePostCmdKeepNewer(body, slot, t) ==
  IF ~DecodeOK(body)
  THEN [status |-> StatusInternalServerError, text |-> "decode error",
        payload |-> slot]
  ELSE LET c == DecodeCmd(body)
           err == verifyCmd(c, KeySum(RelaySecret), RelayTTLTicks, t)
       IN IF err /= ErrNil
          THEN [status |-> StatusUnauthorized, text |-> err, payload |-> slot]
          ELSE [status |-> StatusOK, text |-> "ok",
                payload |-> IF /\ slot /= EmptyBody
                               /\ DecodeCmd(slot).Created > c.Created
                            THEN slot ELSE MarshalCmd(c)]

\* handlePostCmd: the answer and the slot it leaves
handlePostCmd(body, slot, t) ==
  IF ~DecodeOK(body)
  THEN [status |-> StatusInternalServerError, text |-> "decode error",
        payload |-> slot]
  ELSE LET c == DecodeCmd(body)
           err == verifyCmd(c, KeySum(RelaySecret), RelayTTLTicks, t)
       IN IF err /= ErrNil
          THEN [status |-> StatusUnauthorized, text |-> err, payload |-> slot]
          ELSE [status |-> StatusOK, text |-> "ok", payload |-> MarshalCmd(c)]

\* (variant: a failed verification is answered like a failed decode)
handlePostLogAll500(body, t) ==
  IF ~DecodeOK(body)
  THEN [status |-> StatusInternalServerError, text |-> "decode error"]
  ELSE LET l == DecodeLog(body)
           err == verifyLog(l, KeySum(RelaySecret), RelayTTLTicks, t)
       IN IF err /= ErrNil
          THEN [status |-> StatusInternalServerError, text |-> err]
          ELSE [status |-> StatusOK, text |-> "ok"]

\* handlePostLog: the answer
handlePostLog(body, t) ==
  IF ~DecodeOK(body)
  THEN [status |-> StatusInternalServerError, text |-> "decode error"]
  ELSE LET l == DecodeLog(body)
           err == verifyLog(l, KeySum(RelaySecret), RelayTTLTicks, t)
       IN IF err /= ErrNil
          THEN [status |-> StatusUnauthorized, text |-> err]
          ELSE [status |-> StatusOK, text |-> "ok"]

\* what clients put in the Created field, relative to the instant of arrival
CreatedOffsets ==
  {0, 0 - RelayTTLTicks, 0 - RelayTTLTicks - 1, 0 - LongAgo * TicksPerMilli,
   RelayTTLTicks + 1}

\* signatures that are not the hex of a digest: empty, odd length, no hex
BadSums == {<< >>, <<97>>, <<122, 122>>}

\* the bodies a client may POST to /cmd at instant t: no JSON, commands
\* signed with the relay's secret, one signed with another secret, one with
\* a field too many, and commands whose Sum is no digest in hex
CmdBodies(t) ==
  {JunkBody}
  \cup {MarshalCmd(SignedCmd(StrA, << >>, t + o, RelaySecret)) :
          o \in CreatedOffsets}
  \cup {MarshalCmd(SignedCmd(StrA, <<StrB>>, t, s)) : s \in Secrets}
  \cup {WithExtra(MarshalCmd(SignedCmd(StrAB, << >>, t, RelaySecret)))}
  \cup {MarshalCmd(Cmd(StrA, << >>, t, bad)) : bad \in BadSums}

LogBodies(t) ==
  {JunkBody}
  \cup {MarshalLog(SignedLog(StrA, t + o, RelaySecret)) : o \in CreatedOffsets}
  \cup {MarshalLog(SignedLog(StrA, t, s)) : s \in Secrets}
  \cup {MarshalLog(Log(StrA, t, bad)) : bad \in BadSums}

\* the bodies the sender (mode "send") produces for its arguments, as they
\* reach the relay at instant t: stamped by the sender's clock, which may be
\* behind (or the request slow) or ahead of the relay's
SenderCmds == {<<StrA, << >> >>, <<StrA, <<StrB>> >>}
SenderOffsets == {0, RelayTTLTicks + 1}

SenderBodies(t) ==
  {MarshalCmd(SignedCmd(na[1], na[2], t + o, RelaySecret)) :
     na \in SenderCmds, o \in SenderOffsets}

\* ServeHTTP, case "GET": w.Write(a.payload)
Get ==
  /\ resp' = Response("GET", EmptyBody, StatusOK, "", payload, now)
  /\ UNCHANGED <<now, payload, accepted>>
  /\ UNCHANGED agentVars
  /\ UNCHANGED <<probe, serveVars>>

\* ServeHTTP, POST /cmd with the given body
ServePostCmd(body) ==
  LET r == handlePostCmd(body, payload, now) IN
    /\ payload' = r.payload
    /\ resp' = Response("POST /cmd", body, r.status, r.text, EmptyBody, now)

\* POST /cmd from any client; the commands it stores are recorded
PostCmd ==
  /\ Len(accepted) < MaxAccepted
  /\ \E body \in CmdBodies(now) :
       /\ ServePostCmd(body)
       /\ accepted' = IF resp'.status = StatusOK
                      THEN Append(accepted, DecodeCmd(body)) ELSE accepted
  /\ UNCHANGED now
  /\ UNCHANGED agentVars
  /\ UNCHANGED <<probe, serveVars>>

\* mode "send": sign the command and POST it to /cmd
Send ==
  /\ \E body \in SenderBodies(now) : ServePostCmd(body)
  /\ UNCHANGED <<now, accepted>>
  /\ UNCHANGED agentVars
  /\ UNCHANGED <<probe, serveVars>>

\* ServeHTTP, POST /log from any client other than the agent of the model
PostLog ==
  /\ \E body \in LogBodies(now) :
       LET r == handlePostLog(body, now) IN
         resp' = Response("POST /log", body, r.status, r.text, EmptyBody, now)
  /\ UNCHANGED <<now, payload, accepted>>
  /\ UNCHANGED agentVars
  /\ UNCHANGED <<probe, serveVars>>

\* -------------------------------------------------------------------- clock
Tick ==
  /\ now < MaxNow
  /\ now' = now + 1
  /\ UNCHANGED relayVars
  /\ UNCHANGED agentVars
  /\ UNCHANGED <<probe, serveVars>>

\* -------------------------------------------------------------------- agent
ZeroCmd == Cmd(<< >>, << >>, 0, << >>)
NoResult == [out |-> << >>, err |-> ""]

\* what one iteration did: how it ended, the lines it printed (fmt.Println,
\* fmt.Printf) and the calls of postLogMsg with what became of each
NoIter == [verdict |-> "none", printed |-> << >>, posts |-> << >>]

\* one call of postLogMsg: the message, l.Created, and how far it got:
\* "pending" while http.Post runs, "transport" for an error of http.Post,
\* "answered" with the status code of the answer
Post(msg, created, outcome, status) ==
  [msg |-> msg, created |-> created, outcome |-> outcome, status |-> status]

\* postLogMsg returned an error
PostFailed(post) ==
  \/ post.outcome = "transport"
  \/ post.outcome = "answered" /\ post.status /= StatusOK

\* what oscmd.Output() may return: out is nil (empty here) unless the program
\* wrote to stdout, err is set when it failed to start or exited non-zero
Results ==
  {[out |-> o, err |-> e] : o \in {<< >>, StrA}, e \in {"", "exit status 1"}}

\* the end of the loop body: the next iteration starts with time.Sleep(*poll)
NextIteration ==
  /\ pc' = "sleep"
  /\ wakeAt' = now + PollTicks
  /\ fetched' = EmptyBody
  /\ cur' = ZeroCmd
  /\ result' = NoResult

\* fmt.Println(err); continue  (the dedup skip and the end of the body print
\* nothing)
Continue(verdict) ==
  /\ NextIteration
  /\ iter' = [iter EXCEPT
                !.verdict = verdict,
                !.printed = IF verdict \in {"dup", "ok"} THEN @
                            ELSE Append(@, verdict)]

\* (variant: the loop does not wait for the end of time.Sleep)
AgentWakeEarly ==
  /\ pc = "sleep"
  /\ pc' = "get"
  /\ iter' = NoIter
  /\ UNCHANGED <<agentSecret, wakeAt, fetched, cur, lastSum, result, logReq,
                 executed, gets>>
  /\ UNCHANGED <<now, payload, resp, accepted>>
  /\ UNCHANGED <<probe, serveVars>>

\* time.Sleep(*poll) returns
AgentWake ==
  /\ pc = "sleep"
  /\ now >= wakeAt
  /\ pc' = "get"
  /\ iter' = NoIter
  /\ UNCHANGED <<agentSecret, wakeAt, fetched, cur, lastSum, result, logReq,
                 executed, gets>>
  /\ UNCHANGED <<now, payload, resp, accepted>>
  /\ UNCHANGED <<probe, serveVars>>

\* what a listener at *target other than the relay may answer at instant t
ForeignBodies(t) ==
  {JunkBody,
   MarshalCmd(Cmd(StrA, << >>, t, <<122, 122>>)),
   MarshalCmd(SignedCmd(StrAB, << >>, t, 2))}

\* http.Get(*target): a transport error, or the answer to GET /
AgentGet ==
  /\ pc = "get"
  /\ gets' = Append(gets, now)
  /\ \/ /\ Continue("transport")
        /\ UNCHANGED <<agentSecret, lastSum, logReq, executed>>
     \/ /\ fetched' \in {payload} \cup ForeignBodies(now)
        /\ pc' = "check"
        /\ UNCHANGED <<agentSecret, wakeAt, cur, lastSum, result, logReq,
                       executed, iter>>
  /\ UNCHANGED <<now, payload, resp, accepted>>
  /\ UNCHANGED <<probe, serveVars>>

\* (variant: the fetched command is not verified)
CheckVerdictNoVerify(body, last, key, t) ==
  IF ~DecodeOK(body) THEN "decode"
  ELSE LET c == DecodeCmd(body) IN
    IF ~HexDecodeOK(c.Sum) THEN "hex"
    ELSE IF HexDecode(c.Sum) = last THEN "dup"
    ELSE "ok"

\* (variant: the fetched command is not compared with lastSum)
CheckVerdictNoDedup(body, last, key, t) ==
  IF ~DecodeOK(body) THEN "decode"
  ELSE LET c == DecodeCmd(body) IN
    IF ~HexDecodeOK(c.Sum) THEN "hex"
    ELSE LET err == verifyCmd(c, key, PollTicks, t) IN
      IF err /= ErrNil THEN err ELSE "ok"

\* (variant: verifyCmd is given twice the poll interval)
CheckVerdictDoubleTTL(body, last, key, t) ==
  IF ~DecodeOK(body) THEN "decode"
  ELSE LET c == DecodeCmd(body) IN
    IF ~HexDecodeOK(c.Sum) THEN "hex"
    ELSE IF HexDecode(c.Sum) = last THEN "dup"
    ELSE LET err == verifyCmd(c, key, 2 * PollTicks, t) IN
      IF err /= ErrNil THEN err ELSE "ok"

\* the verdict of the loop body up to verifyCmd on a fetched body at instant t
CheckVerdict(body, last, key, t) ==
  IF ~DecodeOK(body) THEN "decode"
  ELSE LET c == DecodeCmd(body) IN
    IF ~HexDecodeOK(c.Sum) THEN "hex"
    ELSE IF HexDecode(c.Sum) = last THEN "dup"
    ELSE LET err == verifyCmd(c, key, PollTicks, t) IN
      IF err /= ErrNil THEN err ELSE "ok"

\* (variant: lastSum = csum is placed before verifyCmd)
RememberBeforeVerify(v, csum, last) ==
  IF v \in {"ok", ErrExpired, ErrChecksum} THEN csum ELSE last

\* lastSum after the loop body up to line 88: csum when verifyCmd returned
\* nil, else what it was
Remember(v, csum, last) == IF v = "ok" THEN csum ELSE last

\* decode, dedup against lastSum, verifyCmd with ttl = poll, then
\* lastSum = csum and exec.Command(c.Name, c.Args...) is started
AgentCheck ==
  /\ pc = "check"
  /\ LET v == CheckVerdict(fetched, lastSum, KeySum(agentSecret), now)
         c == DecodeCmd(fetched)
     IN /\ lastSum' = Remember(v, HexDecode(c.Sum), lastSum)
        /\ IF v /= "ok"
           THEN /\ Continue(v)
                /\ UNCHANGED executed
           ELSE /\ cur' = c
                /\ executed' = Append(executed, [c |-> c, at |-> now])
                /\ pc' = "exec"
                /\ iter' = [iter EXCEPT
                              !.verdict = "ok",
                              !.printed = Append(@, "will execute")]
                /\ UNCHANGED <<wakeAt, fetched, result>>
  /\ UNCHANGED <<agentSecret, logReq, gets>>
  /\ UNCHANGED <<now, payload, resp, accepted>>
  /\ UNCHANGED <<probe, serveVars>>

\* oscmd.Output() returns
AgentExecDone ==
  /\ pc = "exec"
  /\ result' \in Results
  /\ pc' = "report_out"
  /\ UNCHANGED <<agentSecret, wakeAt, fetched, cur, lastSum, logReq, executed,
                 iter, gets>>
  /\ UNCHANGED <<now, payload, resp, accepted>>
  /\ UNCHANGED <<probe, serveVars>>

\* iteration record `it` with one more printed line / call of postLogMsg
Printed(it, line) == [it EXCEPT !.printed = Append(@, line)]
Posted(it, msg, outcome) ==
  [it EXCEPT !.posts = Append(@, Post(msg, now, outcome, 0))]

\* the last call of postLogMsg got an answer with the given status
Returned(it, status) ==
  [it EXCEPT !.posts = [@ EXCEPT ![Len(@)] = [@ EXCEPT !.outcome = "answered",
                                                        !.status = status]]]

\* postLogMsg up to http.Post: the entry is stamped and signed now; the
\* request is on its way to the relay, or http.Post fails and postLogMsg
\* returns the error, which the caller drops
PostLogMsg(msg, it, waitPc) ==
  \/ /\ logReq' = MarshalLog(SignedLog(msg, now, agentSecret))
     /\ pc' = waitPc
     /\ iter' = Posted(it, msg, "pending")
     /\ UNCHANGED <<wakeAt, fetched, cur, result>>
  \/ /\ IF waitPc = "await_out"
        THEN pc' = "report_err" /\ UNCHANGED <<wakeAt, fetched, cur, result>>
        ELSE NextIteration
     /\ iter' = Posted(it, msg, "transport")
     /\ UNCHANGED logReq

\* (variant: postLogMsg is called whether or not there is output)
AgentPostOutAlways ==
  /\ pc = "report_out"
  /\ PostLogMsg(result.out, Printed(iter, "out"), "await_out")
  /\ UNCHANGED <<agentSecret, lastSum, executed, gets>>
  /\ UNCHANGED <<now, payload, resp, accepted>>
  /\ UNCHANGED <<probe, serveVars>>

\* if out != nil { fmt.Println(string(out)); postLogMsg(string(out), ...) }
AgentPostOut ==
  /\ pc = "report_out"
  /\ IF result.out /= << >>
     THEN PostLogMsg(result.out, Printed(iter, "out"), "await_out")
     ELSE /\ pc' = "report_err"
          /\ UNCHANGED <<wakeAt, fetched, cur, result, logReq, iter>>
  /\ UNCHANGED <<agentSecret, lastSum, executed, gets>>
  /\ UNCHANGED <<now, payload, resp, accepted>>
  /\ UNCHANGED <<probe, serveVars>>

\* the text of an execution error, as bytes of the log message
ErrText(e) == StrAB

\* if err != nil { fmt.Println(err); postLogMsg(err.Error(), ...) }; then
\* the loop continues
AgentPostErr ==
  /\ pc = "report_err"
  /\ IF result.err /= ""
     THEN PostLogMsg(ErrText(result.err), Printed(iter, "err"), "await_err")
     ELSE /\ Continue("ok")
          /\ UNCHANGED logReq
  /\ UNCHANGED <<agentSecret, lastSum, executed, gets>>
  /\ UNCHANGED <<now, payload, resp, accepted>>
  /\ UNCHANGED <<probe, serveVars>>

\* the relay handles the agent's POST /log and postLogMsg returns: nil for
\* status 200, else an error, which the caller drops
AgentLogHandled ==
  /\ pc \in {"await_out", "await_err"}
  /\ LET r == handlePostLog(logReq, now) IN
       /\ resp' = Response("POST /log", logReq, r.status, r.text, EmptyBody, now)
       /\ iter' = Returned(iter, r.status)
  /\ IF pc = "await_out"
     THEN /\ pc' = "report_err"
          /\ UNCHANGED <<wakeAt, fetched, cur, result>>
     ELSE NextIteration
  /\ logReq' = EmptyBody
  /\ UNCHANGED <<agentSecret, lastSum, executed, gets>>
  /\ UNCHANGED <<now, payload, accepted>>
  /\ UNCHANGED <<probe, serveVars>>

\* ------------------------------------------- the relay, handlers in parallel
\* net/http runs ServeHTTP in a goroutine per connection.  The handlers share
\* a.payload and a.hasher without a lock, so their reads and writes of the
\* words of the slice a.payload and their calls of Reset, Write and Sum
\* interleave in any order.  Two handlers run at once.
Goroutines == {1, 2}

\* the number of bytes of json.Marshal(c) for the body it produces (field
\* names, punctuation and the timestamp take 64 bytes)
JSONLen(b) ==
  IF b.kind /= "json" THEN 0
  ELSE 64 + Len(b.Name) + Len(Concat(b.Args)) + 3 * Len(b.Args) + Len(b.Sum)

\* what w.Write(a.payload) sends for the data pointer and the length it
\* loaded: nothing for length 0, the stored bytes when the two words belong
\* together, no answer (nil dereference, the handler panics) for a nil
\* pointer with a length, else bytes that are no payload that was stored
WriteSlice(ptr, len) ==
  IF len = 0 THEN EmptyBody
  ELSE IF ptr = EmptyBody THEN [kind |-> "panic"]
  ELSE IF len = JSONLen(ptr) THEN ptr
  ELSE [kind |-> "torn", len |-> len, Name |-> ptr.Name, Args |-> ptr.Args,
        Created |-> ptr.Created, Sum |-> ptr.Sum]

\* a handler goroutine: the request, the Write calls signCmd / signLog will
\* make, how many it made, the words of a.payload it loaded or stored, and
\* its answer
Handler(hpc, op, req, chunks, k, words, ptr, len, status, text, body, n) ==
  [pc |-> hpc, op |-> op, req |-> req, chunks |-> chunks, k |-> k,
   words |-> words, ptr |-> ptr, len |-> len, status |-> status,
   text |-> text, body |-> body, n |-> n]

IdleHandler == Handler("idle", "none", EmptyBody, << >>, 0, {}, EmptyBody, 0,
                       0, "", EmptyBody, 0)

\* the handler answers and returns
Respond(h, status, text, body) ==
  [h EXCEPT !.pc = "done", !.status = status, !.text = text, !.body = body]

\* the requests of SpecServe, all stamped now: two commands and a log entry
\* signed with the relay's secret, and a command {a} that carries the
\* signature of the command {a, [b]}
ServeCmdBodies(t) ==
  {MarshalCmd(SignedCmd(StrA, << >>, t, RelaySecret)),
   MarshalCmd(SignedCmd(StrA, <<StrB>>, t, RelaySecret)),
   MarshalCmd(Cmd(StrA, << >>, t, SignedCmd(StrA, <<StrB>>, t, RelaySecret).Sum))}

ServeLogBodies(t) == {MarshalLog(SignedLog(StrA, t, RelaySecret))}

\* the byte slices signCmd / signLog pass to h.Write, in order
CmdChunks(c) == <<ttb(c.Created), c.Name>> \o c.Args
LogChunks(l) == <<ttb(l.Created), l.Msg>>

Served == goroutine[1].n + goroutine[2].n

\* ServeHTTP is entered: GET goes on to w.Write(a.payload); POST decodes the
\* body and runs verify up to the call of signCmd / signLog
Accept(g) ==
  /\ goroutine[g].pc \in {"idle", "done"}
  /\ Served < MaxRequests
  /\ LET n == goroutine[g].n + 1 IN
     \/ goroutine' = [goroutine EXCEPT ![g] =
          Handler("load", "GET", EmptyBody, << >>, 0, {}, EmptyBody, 0,
                  0, "", EmptyBody, n)]
     \/ \E body \in ServeCmdBodies(now) :
          LET c == DecodeCmd(body)
              h == Handler("reset", "POST /cmd", body, CmdChunks(c), 0, {},
                           EmptyBody, 0, 0, "", EmptyBody, n)
          IN goroutine' = [goroutine EXCEPT ![g] =
               IF ~DecodeOK(body)
               THEN Respond(h, StatusInternalServerError, "decode error",
                            EmptyBody)
               ELSE IF Expired(c.Created, RelayTTLTicks, now)
               THEN Respond(h, StatusUnauthorized, ErrExpired, EmptyBody)
               ELSE IF ~HexDecodeOK(c.Sum)
               THEN Respond(h, StatusUnauthorized, ErrHex, EmptyBody)
               ELSE h]
     \/ \E body \in ServeLogBodies(now) :
          LET l == DecodeLog(body)
              h == Handler("reset", "POST /log", body, LogChunks(l), 0, {},
                           EmptyBody, 0, 0, "", EmptyBody, n)
          IN goroutine' = [goroutine EXCEPT ![g] =
               IF ~DecodeOK(body)
               THEN Respond(h, StatusInternalServerError, "decode error",
                            EmptyBody)
               ELSE IF Expired(l.Created, RelayTTLTicks, now)
               THEN Respond(h, StatusUnauthorized, ErrExpired, EmptyBody)
               ELSE IF ~HexDecodeOK(l.Sum)
               THEN Respond(h, StatusUnauthorized, ErrHex, EmptyBody)
               ELSE h]
  /\ UNCHANGED <<now, payload, resp, accepted, payloadLen, hasher, probe>>
  /\ UNCHANGED agentVars

\* h.Reset()
HashReset(g) ==
  /\ goroutine[g].pc = "reset"
  /\ hasher' = << >>
  /\ goroutine' = [goroutine EXCEPT ![g].pc = "write"]
  /\ UNCHANGED <<now, payload, resp, accepted, payloadLen, probe>>
  /\ UNCHANGED agentVars

\* h.Write(...): the next of the byte slices of signCmd / signLog
HashWrite(g) ==
  /\ goroutine[g].pc = "write"
  /\ LET h == goroutine[g] IN
       /\ hasher' = hasher \o h.chunks[h.k + 1]
       /\ goroutine' = [goroutine EXCEPT ![g] =
            [h EXCEPT !.k = h.k + 1,
                      !.pc = IF h.k + 1 = Len(h.chunks) THEN "sum" ELSE "write"]]
  /\ UNCHANGED <<now, payload, resp, accepted, payloadLen, probe>>
  /\ UNCHANGED agentVars

\* h.Sum(nil) and bytes.Equal with the decoded Sum of the request: 401, or
\* for a log entry "ok", or for a command json.Marshal(c) and on to the
\* assignment of a.payload
HashSum(g) ==
  /\ goroutine[g].pc = "sum"
  /\ LET h == goroutine[g]
         ok == Digest(KeySum(RelaySecret), hasher) = HexDecode(h.req.Sum)
     IN /\ goroutine' = [goroutine EXCEPT ![g] =
             IF ~ok
             THEN Respond(h, StatusUnauthorized, ErrChecksum, EmptyBody)
             ELSE IF h.op = "POST /log"
             THEN Respond(h, StatusOK, "ok", EmptyBody)
             ELSE [h EXCEPT !.pc = "store",
                            !.ptr = MarshalCmd(DecodeCmd(h.req)),
                            !.len = JSONLen(MarshalCmd(DecodeCmd(h.req)))]]
        /\ accepted' = IF ok /\ h.op = "POST /cmd"
                       THEN Append(accepted, DecodeCmd(h.req)) ELSE accepted
  /\ UNCHANGED <<now, payload, resp, payloadLen, hasher, probe>>
  /\ UNCHANGED agentVars

\* a.payload = ...: one word of the slice (data pointer, length) is stored,
\* in the order the compiled code happens to use; after the last, "ok"
Store(g) ==
  /\ goroutine[g].pc = "store"
  /\ LET h == goroutine[g] IN
     \E w \in {"ptr", "len"} \ h.words :
       /\ IF w = "ptr"
          THEN payload' = h.ptr /\ UNCHANGED payloadLen
          ELSE payloadLen' = h.len /\ UNCHANGED payload
       /\ goroutine' = [goroutine EXCEPT ![g] =
            IF h.words \cup {w} = {"ptr", "len"}
            THEN Respond([h EXCEPT !.words = {"ptr", "len"}], StatusOK, "ok",
                         EmptyBody)
            ELSE [h EXCEPT !.words = {w}]]
  /\ UNCHANGED <<now, resp, accepted, hasher, probe>>
  /\ UNCHANGED agentVars

\* w.Write(a.payload): one word of the slice is loaded; after the last, the
\* bytes are sent
Load(g) ==
  /\ goroutine[g].pc = "load"
  /\ LET h == goroutine[g] IN
     \E w \in {"ptr", "len"} \ h.words :
       LET h2 == IF w = "ptr"
                 THEN [h EXCEPT !.ptr = payload, !.words = h.words \cup {w}]
                 ELSE [h EXCEPT !.len = payloadLen, !.words = h.words \cup {w}]
       IN goroutine' = [goroutine EXCEPT ![g] =
            IF h2.words = {"ptr", "len"}
            THEN Respond(h2, StatusOK, "", WriteSlice(h2.ptr, h2.len))
            ELSE h2]
  /\ UNCHANGED <<now, payload, resp, accepted, payloadLen, hasher, probe>>
  /\ UNCHANGED agentVars

\* ------------------------------------------------------- a polling session
\* POST /cmd of a request body that a sender produced at instant Start and
\* that reaches the relay now: delivered late, or posted again by whoever
\* saw it on the wire
Replay ==
  /\ \E body \in SenderBodies(Start) : ServePostCmd(body)
  /\ UNCHANGED <<now, accepted>>
  /\ UNCHANGED agentVars
  /\ UNCHANGED <<probe, serveVars>>

\* the clock while the agent sleeps, in the fastest session there is:
\* time.Sleep(*poll) lasts *poll and no more, the rest of the loop no time
Elapse ==
  /\ pc = "sleep"
  /\ now < wakeAt
  /\ Len(gets) < MaxPolls
  /\ now' = wakeAt
  /\ UNCHANGED relayVars
  /\ UNCHANGED agentVars
  /\ UNCHANGED <<probe, serveVars>>

\* ------------------------------------------------- verify, called on its own
\* One message, signed with the secret of `signer`, is checked by a party
\* that holds `secret`, with window ttl, at instant `at`; before the check
\* the message may be changed in transit.
Probe(kind, signer, secret, ttl, at, orig, msg, op, res) ==
  [kind |-> kind, signer |-> signer, secret |-> secret, ttl |-> ttl, at |-> at,
   orig |-> orig, msg |-> msg, op |-> op, res |-> res]

NoProbe == Probe("none", 0, 0, 0, 0, ZeroCmd, ZeroCmd, "none", "none")

\* the two windows the program uses
TTLs == {RelayTTLTicks, PollTicks}

\* Created relative to the instant of the check, for window ttl
ProbeOffsets(ttl) == {0 - ttl - 1, 0 - ttl, 0, 1, ttl + 1}

ProbesFor(s, k, ttl) ==
  {Probe("cmd", s, k, ttl, Start, m, m, "signed", "none") :
     m \in {SignedCmd(n, a, Start + o, s) :
              n \in Names, a \in ArgLists, o \in ProbeOffsets(ttl)}}
  \cup
  {Probe("log", s, k, ttl, Start, m, m, "signed", "none") :
     m \in {SignedLog(x, Start + o, s) : x \in Msgs, o \in ProbeOffsets(ttl)}}

ProbeInputs ==
  UNION {ProbesFor(t[1], t[2], t[3]) : t \in Secrets \X Secrets \X TTLs}

Pow2(b) == IF b = 0 THEN 1 ELSE IF b = 1 THEN 2 ELSE IF b = 2 THEN 4
           ELSE IF b = 3 THEN 8 ELSE IF b = 4 THEN 16 ELSE IF b = 5 THEN 32
           ELSE IF b = 6 THEN 64 ELSE 128

\* byte c with bit b inverted
FlipBit(c, b) ==
  IF (c \div Pow2(b)) % 2 = 1 THEN c - Pow2(b) ELSE c + Pow2(b)

\* verifyCmd(c, hasher, ttl) is called
ProbeVerifyCmd ==
  /\ probe.kind = "cmd"
  /\ probe.res = "none"
  /\ probe' = [probe EXCEPT !.res = verifyCmd(probe.msg, KeySum(probe.secret),
                                              probe.ttl, probe.at)]
  /\ UNCHANGED <<now, payload, resp, accepted>>
  /\ UNCHANGED agentVars
  /\ UNCHANGED serveVars

\* verifyLog(l, hasher, ttl) is called
ProbeVerifyLog ==
  /\ probe.kind = "log"
  /\ probe.res = "none"
  /\ probe' = [probe EXCEPT !.res = verifyLog(probe.msg, KeySum(probe.secret),
                                              probe.ttl, probe.at)]
  /\ UNCHANGED <<now, payload, resp, accepted>>
  /\ UNCHANGED agentVars
  /\ UNCHANGED serveVars

\* a signed command has its Name, Args or Created changed, Sum kept
ProbeMutate ==
  /\ probe.kind = "cmd"
  /\ probe.op = "signed"
  /\ probe.res = "none"
  /\ \E n \in Names, a \in ArgLists, d \in {0, 1} :
       LET m == Cmd(n, a, probe.orig.Created + d, probe.orig.Sum) IN
         /\ m /= probe.orig
         /\ probe' = [probe EXCEPT !.msg = m, !.op = "mutated"]
  /\ UNCHANGED <<now, payload, resp, accepted>>
  /\ UNCHANGED agentVars
  /\ UNCHANGED serveVars

\* one bit of the transmitted Sum of a fresh, validly signed message flips
ProbeTamper ==
  /\ probe.kind \in {"cmd", "log"}
  /\ probe.op = "signed"
  /\ probe.res = "none"
  /\ probe.signer = probe.secret
  /\ probe.orig.Created = probe.at
  /\ \E i \in 1..Len(probe.orig.Sum), b \in 0..7 :
       probe' = [probe EXCEPT
                   !.msg = [probe.orig EXCEPT
                              !.Sum = [@ EXCEPT ![i] = FlipBit(@, b)]],
                   !.op = "tampered"]
  /\ UNCHANGED <<now, payload, resp, accepted>>
  /\ UNCHANGED agentVars
  /\ UNCHANGED serveVars

\* signature texts that are not the hex of a digest: no hex at all (odd
\* length, a character that is no hex digit), or the hex of fewer bytes
WrongSums == BadSums \cup {<<97, 98>>}

\* a signed message reaches verify with another text in its Sum field
ProbeBadSum ==
  /\ probe.kind \in {"cmd", "log"}
  /\ probe.op = "signed"
  /\ probe.res = "none"
  /\ \E bad \in WrongSums :
       probe' = [probe EXCEPT !.msg = [probe.orig EXCEPT !.Sum = bad],
                              !.op = "badsum"]
  /\ UNCHANGED <<now, payload, resp, accepted>>
  /\ UNCHANGED agentVars
  /\ UNCHANGED serveVars

\* a signed log entry is presented as a command (Name = Msg, no Args), a
\* signed command as a log entry (Msg = Name and Args in a row), with the
\* Created and the Sum of the original
ProbeCross ==
  /\ probe.op = "signed"
  /\ probe.res = "none"
  /\ \/ /\ probe.kind = "log"
        /\ probe' = [probe EXCEPT
                       !.kind = "cmd",
                       !.msg = Cmd(probe.orig.Msg, << >>, probe.orig.Created,
                                   probe.orig.Sum),
                       !.op = "crossed"]
     \/ /\ probe.kind = "cmd"
        /\ probe' = [probe EXCEPT
                       !.kind = "log",
                       !.msg = Log(probe.orig.Name \o Concat(probe.orig.Args),
                                   probe.orig.Created, probe.orig.Sum),
                       !.op = "crossed"]
  /\ UNCHANGED <<now, payload, resp, accepted>>
  /\ UNCHANGED agentVars
  /\ UNCHANGED serveVars

\* ------------------------------------------------------------ specification
Init ==
  /\ now = Start
  /\ payload = EmptyBody
  /\ resp = NoResponse
  /\ accepted = << >>
  /\ agentSecret \in Secrets
  /\ pc = "sleep"
  /\ wakeAt = Start + PollTicks
  /\ fetched = EmptyBody
  /\ cur = ZeroCmd
  /\ lastSum = << >>
  /\ result = NoResult
  /\ logReq = EmptyBody
  /\ executed = << >>
  /\ iter = NoIter
  /\ gets = << >>
  /\ probe = NoProbe
  /\ payloadLen = 0
  /\ hasher = << >>
  /\ goroutine = [g \in Goroutines |-> IdleHandler]

Next ==
  \/ Tick
  \/ Send
  \/ AgentWake
  \/ AgentGet
  \/ AgentCheck
  \/ AgentExecDone
  \/ AgentPostOut
  \/ AgentPostErr
  \/ AgentLogHandled

Spec == Init /\ [][Next]_vars

\* the relay alone, under arbitrary clients whose requests arrive at one
\* instant with Created stamps before, at and after it
NextRelay ==
  \/ Get
  \/ PostCmd
  \/ PostLog

InitRelay == Init /\ agentSecret = RelaySecret

SpecRelay == InitRelay /\ [][NextRelay]_vars

\* the relay with two handlers at a time, all requests at one instant
NextServe ==
  \E g \in Goroutines :
    \/ Accept(g)
    \/ HashReset(g)
    \/ HashWrite(g)
    \/ HashSum(g)
    \/ Store(g)
    \/ Load(g)

SpecServe == InitRelay /\ [][NextServe]_vars

\* one agent over several polls of a relay whose slot is rewritten with
\* commands signed at Start, by a sender whose clock may be ahead
NextSession ==
  \/ Elapse
  \/ Replay
  \/ AgentWake
  \/ AgentGet
  \/ AgentCheck
  \/ AgentExecDone
  \/ AgentPostOut
  \/ AgentPostErr
  \/ AgentLogHandled

SpecSession == Init /\ [][NextSession]_vars

\* verifyCmd and verifyLog as functions of message, key, window and instant
InitVerify ==
  /\ now = Start
  /\ payload = EmptyBody
  /\ resp = NoResponse
  /\ accepted = << >>
  /\ agentSecret = RelaySecret
  /\ pc = "sleep"
  /\ wakeAt = Start + PollTicks
  /\ fetched = EmptyBody
  /\ cur = ZeroCmd
  /\ lastSum = << >>
  /\ result = NoResult
  /\ logReq = EmptyBody
  /\ executed = << >>
  /\ iter = NoIter
  /\ gets = << >>
  /\ probe \in ProbeInputs
  /\ payloadLen = 0
  /\ hasher = << >>
  /\ goroutine = [g \in Goroutines |-> IdleHandler]

NextVerify ==
  \/ ProbeVerifyCmd
  \/ ProbeVerifyLog
  \/ ProbeMutate
  \/ ProbeTamper
  \/ ProbeBadSum
  \/ ProbeCross

SpecVerify == InitVerify /\ [][NextVerify]_vars

\* ------------------------------------------------------------------ claims
\* the bytes the signature of the probed message covers
ProbeWritten(m) ==
  IF probe.kind = "cmd" THEN CmdWritten(m) ELSE LogWritten(m)

\* the probed message is checked as it was signed, by a holder of the key
ProbeGenuine ==
  /\ probe.res /= "none"
  /\ probe.op = "signed"
  /\ probe.signer = probe.secret

\* C4: TTL boundary.  A message signed with key K and stamped Created = T
\* passes verifyCmd / verifyLog under K at every instant <= T + ttl and fails
\* with "payload expired" at every instant after T + ttl, for both windows
\* (200ms at the relay, the poll interval at the agent).
C4_TTLBoundary ==
  ProbeGenuine =>
    IF probe.at <= probe.orig.Created + probe.ttl
    THEN probe.res = ErrNil
    ELSE probe.res = ErrExpired

\* a log entry exactly 200ms old is accepted
C4_Witness ==
  /\ ProbeGenuine
  /\ probe.kind = "log"
  /\ probe.ttl = RelayTTLTicks
  /\ probe.at = probe.orig.Created + probe.ttl
  /\ probe.res = ErrNil

\* the Sum of the probed message is the hex of the keyed digest of its fields
ProbeSumMatches ==
  /\ HexDecodeOK(probe.msg.Sum)
  /\ HexDecode(probe.msg.Sum)
       = Digest(KeySum(probe.secret), ProbeWritten(probe.msg))

\* C5 as stated: verify accepts only messages whose signature matches and
\* whose Created lies within ttl of the instant of the check, in the past
\* and in the future.
C5_Original ==
  probe.res = ErrNil =>
    /\ ProbeSumMatches
    /\ probe.at - probe.msg.Created <= probe.ttl
    /\ probe.msg.Created - probe.at <= probe.ttl

\* C5, amended: verify accepts only messages whose signature matches and
\* that are at most ttl old; the window has no future side: a genuine
\* message stamped later than the instant of the check passes, however far
\* ahead its stamp is.
C5_Amended ==
  /\ probe.res = ErrNil =>
       /\ ProbeSumMatches
       /\ probe.at - probe.msg.Created <= probe.ttl
  /\ (ProbeGenuine /\ probe.orig.Created > probe.at) => probe.res = ErrNil

\* a message stamped more than ttl ahead of the check has passed
C5_Witness ==
  /\ probe.res = ErrNil
  /\ probe.msg.Created > probe.at + probe.ttl

\* C9 as stated: a command that differs from a validly signed one in Name,
\* Args or Created never verifies under the signature of that one.
C9_SignedImmutable ==
  ( /\ probe.op = "mutated"
    /\ probe.res /= "none"
    /\ verifyCmd(probe.orig, KeySum(probe.secret), probe.ttl, probe.at) = ErrNil )
  => probe.res /= ErrNil

\* the Sum in transit and the Sum as signed decode to the same bytes
TamperKeepsBytes ==
  /\ HexDecodeOK(probe.msg.Sum)
  /\ HexDecode(probe.msg.Sum) = HexDecode(probe.orig.Sum)

\* C10 as stated: after any one-bit change of the transmitted signature of a
\* valid message, verify fails with "invalid checksum".
C10_Original ==
  (probe.op = "tampered" /\ probe.res /= "none") => probe.res = ErrChecksum

\* C10, amended: after a one-bit change of the transmitted (hex) signature
\* of a valid message, verify fails with "invalid checksum" when the text is
\* still hex and decodes to other bytes, fails with the hex-decoding error
\* when the text is no longer hex, and passes only when the text decodes to
\* the same bytes, which is the change of a digit a-f to A-F.
C10_Amended ==
  (probe.op = "tampered" /\ probe.res /= "none") =>
    /\ ~HexDecodeOK(probe.msg.Sum) => probe.res = ErrHex
    /\ (HexDecodeOK(probe.msg.Sum) /\ ~TamperKeepsBytes) => probe.res = ErrChecksum
    /\ probe.res = ErrNil <=> TamperKeepsBytes
    /\ TamperKeepsBytes =>
         \A i \in 1..Len(probe.orig.Sum) :
           probe.msg.Sum[i] /= probe.orig.Sum[i] =>
             /\ probe.orig.Sum[i] \in 97..102
             /\ probe.msg.Sum[i] = probe.orig.Sum[i] - 32

\* a flipped bit that changes the digest bytes has been refused
C10_Witness ==
  /\ probe.op = "tampered"
  /\ probe.kind = "cmd"
  /\ HexDecodeOK(probe.msg.Sum)
  /\ probe.res = ErrChecksum

\* the command stored last, if any
LastAccepted == accepted[Len(accepted)]

\* C1: relay overwrite semantics.  Once POST /cmd of A and then of B were
\* accepted, the slot holds the serialization of B, and a GET that follows
\* returns it and not that of A.
C1_Overwrite ==
  /\ accepted /= << >> => payload = MarshalCmd(LastAccepted)
  /\ (resp.op = "GET" /\ accepted /= << >>) =>
       /\ resp.body = MarshalCmd(LastAccepted)
       /\ \A i \in 1..(Len(accepted) - 1) :
            accepted[i] /= LastAccepted => resp.body /= MarshalCmd(accepted[i])

\* two different commands were accepted, then GET was answered
C1_Witness ==
  /\ resp.op = "GET"
  /\ Len(accepted) = 2
  /\ accepted[1] /= accepted[2]

\* the command of request body b was within the relay's window at instant t
\* and carries the digest of its fields under the relay's key
RelayVerified(c, t) ==
  /\ t - c.Created <= RelayTTLTicks
  /\ HexDecodeOK(c.Sum)
  /\ HexDecode(c.Sum) = Digest(KeySum(RelaySecret), CmdWritten(c))

\* the step of the slot invariant: the slot changes only with a 200 answer
\* to POST /cmd, to the serialization of the verified command
C2_Step ==
  /\ payload' /= payload =>
       /\ resp'.op = "POST /cmd"
       /\ resp'.status = StatusOK
       /\ DecodeOK(resp'.req)
       /\ RelayVerified(DecodeCmd(resp'.req), resp'.at)
       /\ payload' = MarshalCmd(DecodeCmd(resp'.req))
  /\ ( /\ resp' /= resp
       /\ \/ resp'.op \in {"GET", "POST /log"}
          \/ resp'.status \in {StatusInternalServerError, StatusUnauthorized} )
     => payload' = payload

\* C2: the slot is empty until a command is accepted and then holds the
\* serialization of a command that POST /cmd verified with the 200ms window
\* under the relay's key; it changes only in such a POST /cmd and is left
\* alone by GET, by POST /log and by a POST /cmd answered 500 or 401.
C2_SlotInvariant ==
  /\ [](IF accepted = << >> THEN payload = EmptyBody
        ELSE \E i \in 1..Len(accepted) :
               /\ payload = MarshalCmd(accepted[i])
               /\ HexDecode(accepted[i].Sum)
                    = Digest(KeySum(RelaySecret), CmdWritten(accepted[i])))
  /\ [][C2_Step]_vars

\* a POST /cmd was refused while the slot held a command
C2_Witness ==
  /\ payload /= EmptyBody
  /\ resp.op = "POST /cmd"
  /\ resp.status = StatusUnauthorized
  /\ DecodeCmd(resp.req) /= DecodeCmd(payload)

\* what verify says of the body of the request that resp answers
RespVerdict ==
  IF resp.op = "POST /cmd"
  THEN verifyCmd(DecodeCmd(resp.req), KeySum(RelaySecret), RelayTTLTicks, resp.at)
  ELSE verifyLog(DecodeLog(resp.req), KeySum(RelaySecret), RelayTTLTicks, resp.at)

\* C8: relay response codes.  POST /cmd and POST /log answer 500 to a body
\* that does not decode, 401 with the reason to a message that fails
\* verification (a command stamped 10 seconds ago: 401 "payload expired"),
\* and 200 "ok" only when decode and verify both succeed.
C8_ResponseCodes ==
  resp.op \in {"POST /cmd", "POST /log"} =>
    /\ ~DecodeOK(resp.req) => resp.status = StatusInternalServerError
    /\ (DecodeOK(resp.req) /\ RespVerdict /= ErrNil) =>
         /\ resp.status = StatusUnauthorized
         /\ resp.text = RespVerdict
         /\ resp.text \in {ErrExpired, ErrHex, ErrChecksum}
    /\ (DecodeOK(resp.req)
        /\ resp.at - resp.req.Created >= LongAgo * TicksPerMilli) =>
         /\ resp.status = StatusUnauthorized
         /\ resp.text = "payload expired"
    /\ resp.status = StatusOK <=> (DecodeOK(resp.req) /\ RespVerdict = ErrNil)
    /\ resp.status = StatusOK => resp.text = "ok"

\* a log entry stamped 10 seconds ago was refused as expired
C8_Witness ==
  /\ resp.op = "POST /log"
  /\ resp.status = StatusUnauthorized
  /\ resp.text = ErrExpired
  /\ resp.at - resp.req.Created = LongAgo * TicksPerMilli

\* C3: the agent executes only what verifyCmd accepted in that iteration
\* with ttl = poll under its own key: every executed command carries the
\* digest of its fields under the agent's key, and no other key's, and was
\* at most one poll interval old when it was verified; an agent whose secret
\* differs from the sender's executes none of the sender's commands.
C3_ExecuteOnlyVerified ==
  /\ \A i \in 1..Len(executed) :
       LET e == executed[i] IN
         /\ HexDecodeOK(e.c.Sum)
         /\ HexDecode(e.c.Sum) = Digest(KeySum(agentSecret), CmdWritten(e.c))
         /\ \A s \in Secrets \ {agentSecret} :
              HexDecode(e.c.Sum) /= Digest(KeySum(s), CmdWritten(e.c))
         /\ e.at - e.c.Created <= PollTicks
  /\ agentSecret /= RelaySecret =>
       \A i \in 1..Len(executed) :
         /\ executed[i].c /= DecodeCmd(payload)
         /\ ~RelayVerified(executed[i].c, executed[i].at)

\* a command exactly one poll interval old was executed
C3_Witness ==
  /\ executed /= << >>
  /\ executed[1].at - executed[1].c.Created = PollTicks
  /\ payload = MarshalCmd(executed[1].c)

\* the step of dedup: a fetched command whose signature bytes are lastSum
\* sends the loop back to sleep with nothing executed and nothing posted
C6_Step ==
  ( /\ pc = "check"
    /\ pc' /= "check"
    /\ DecodeOK(fetched)
    /\ HexDecodeOK(DecodeCmd(fetched).Sum)
    /\ HexDecode(DecodeCmd(fetched).Sum) = lastSum )
  => /\ pc' = "sleep"
     /\ executed' = executed
     /\ logReq' = logReq
     /\ lastSum' = lastSum

\* C6: dedup idempotence.  lastSum is the signature of the command executed
\* last; a fetch that returns a command with these signature bytes triggers
\* no execution and no log post, and no two commands executed in a row have
\* the same signature bytes.
C6_Dedup ==
  /\ [](/\ executed /= << >> =>
             lastSum = HexDecode(executed[Len(executed)].c.Sum)
        /\ \A i \in 1..(Len(executed) - 1) :
             HexDecode(executed[i].c.Sum) /= HexDecode(executed[i + 1].c.Sum))
  /\ [][C6_Step]_vars

\* the command executed before was fetched again and skipped
C6_Witness ==
  /\ pc = "sleep"
  /\ iter.verdict = "dup"
  /\ Len(executed) = 1
  /\ payload = MarshalCmd(executed[1].c)

\* C7 as stated: with one secret everywhere, a command in the slot that the
\* agent fetches passes the agent's verify and is executed (unless it is the
\* one executed last), and the relay answers 200 to the agent's log posts.
C7_Delivery ==
  [][agentSecret = RelaySecret =>
       /\ ( /\ pc = "check"
            /\ pc' /= "check"
            /\ payload /= EmptyBody
            /\ fetched = payload )
          => iter'.verdict \in {"ok", "dup"}
       /\ (pc \in {"await_out", "await_err"} /\ pc' /= pc)
          => resp'.status = StatusOK]_vars

\* the verdicts with which an iteration fails before anything is executed
FailureVerdicts == {"transport", "decode", "hex", ErrExpired, ErrHex, ErrChecksum}

\* the lines of an iteration that report an error (all but the announcement
\* of the execution and the captured output)
ErrorLines(it) ==
  Cardinality({i \in 1..Len(it.printed) :
                 it.printed[i] \notin {"will execute", "out"}})

\* the calls of postLogMsg of an iteration that returned an error
FailedPosts(it) ==
  Cardinality({i \in 1..Len(it.posts) : PostFailed(it.posts[i])})

\* the failures that happen in a step of the agent
StepFailures ==
  (IF pc = "get" /\ pc' = "sleep" THEN 1 ELSE 0)
  + (IF pc = "check" /\ iter'.verdict \in FailureVerdicts THEN 1 ELSE 0)
  + (IF pc = "report_err" /\ pc' /= pc /\ result.err /= "" THEN 1 ELSE 0)
  + (IF FailedPosts(iter') > FailedPosts(iter) THEN 1 ELSE 0)

\* C13 as stated: every failure of the agent (fetch, decode, signature hex,
\* verify, execution, and a failed or non-200 POST /log) prints a line, and
\* the loop goes on with the next iteration.
C13_ErrorsObserved ==
  [][pc /= "sleep" =>
       /\ ErrorLines(iter') - ErrorLines(iter) >= StepFailures
       /\ (pc \in {"get", "check"} /\ iter'.verdict \in FailureVerdicts)
            => pc' = "sleep"]_vars

\* the iteration works on a command that verifyCmd accepted
Running == pc \in {"exec", "report_out", "await_out", "report_err", "await_err"}

\* the step of C14
C14_Step ==
  /\ lastSum' /= lastSum =>
       /\ pc = "check"
       /\ pc' = "exec"
       /\ DecodeOK(fetched)
       /\ verifyCmd(DecodeCmd(fetched), KeySum(agentSecret), PollTicks, now)
            = ErrNil
       /\ lastSum' = HexDecode(DecodeCmd(fetched).Sum)
       /\ executed' = Append(executed, [c |-> DecodeCmd(fetched), at |-> now])
  /\ (pc = "check" /\ pc' = "exec") => lastSum' /= lastSum
  /\ (pc \in {"get", "check"} /\ pc' = "sleep") =>
       /\ lastSum' = lastSum
       /\ executed' = executed
       /\ logReq' = logReq
       /\ iter'.posts = << >>
       /\ iter'.verdict \in FailureVerdicts \cup {"dup"}

\* C14: lastSum is assigned once in each iteration whose verifyCmd succeeds,
\* to the signature bytes of the command just verified, and is set while
\* that command is executed and reported; a failure at fetch, decode,
\* signature hex or verify, and a dedup skip, go back to sleep with lastSum
\* unchanged, nothing executed and no POST /log.
C14_LastSumFrame ==
  /\ [](Running => lastSum = HexDecode(cur.Sum))
  /\ [][C14_Step]_vars

\* after one command was executed, a fetched command failed verifyCmd and
\* lastSum is still the signature of the executed one
C14_Witness ==
  /\ pc = "sleep"
  /\ iter.verdict = ErrChecksum
  /\ Len(executed) = 1
  /\ lastSum = HexDecode(executed[1].c.Sum)

\* the step of C16
C16_Step ==
  /\ (pc = "report_out" /\ pc' /= pc) =>
       IF result.out /= << >>
       THEN /\ Len(iter'.posts) = 1
            /\ iter'.posts[1].msg = result.out
            /\ iter'.posts[1].created = now
       ELSE iter'.posts = << >>
  /\ (pc = "report_err" /\ pc' /= pc /\ result.err /= "") =>
       /\ Len(iter'.posts) = Len(iter.posts) + 1
       /\ iter'.posts[Len(iter'.posts)].msg = ErrText(result.err)
       /\ iter'.posts[Len(iter'.posts)].created = now
  /\ (pc = "report_err" /\ pc' /= pc /\ result.err = "") =>
       iter'.posts = iter.posts
  /\ (pc \in {"report_out", "await_out"} /\ pc' /= pc) =>
       pc' \in {"await_out", "report_err"}
  /\ (pc \in {"report_err", "await_err"} /\ pc' /= pc) =>
       pc' \in {"await_err", "sleep"}
  /\ logReq' /= logReq =>
       \/ logReq' = EmptyBody
       \/ /\ Running
          /\ logReq' = MarshalLog(SignedLog(iter'.posts[Len(iter'.posts)].msg,
                                            now, agentSecret))

C17_Sequential ==
  /\ gets /= << >> => gets[1] >= Start + PollTicks
  /\ \A i \in 1..(Len(gets) - 1) : gets[i + 1] - gets[i] >= PollTicks
  /\ logReq /= EmptyBody <=> pc \in {"await_out", "await_err"}
  /\ pc \in {"sleep", "get"} =>
       /\ logReq = EmptyBody
       /\ result = NoResult
       /\ \A i \in 1..Len(iter.posts) : iter.posts[i].outcome /= "pending"

\* the second GET was issued exactly one poll interval after the first
C17_Witness ==
  /\ Len(gets) = 2
  /\ gets[2] - gets[1] = PollTicks
  /\ pc = "check"

\* the digest of the fields of the probed message, under the verifier's key
ProbeDigest == Digest(KeySum(probe.secret), ProbeWritten(probe.msg))

\* C15 as stated: verify reports the first failing check of: older than ttl
\* (expired, whatever the signature); signature not valid hex of the digest
\* length (malformed); digest mismatch (invalid); else nil.
C15_Original ==
  probe.res /= "none" =>
    probe.res =
      IF probe.at - probe.msg.Created > probe.ttl THEN ErrExpired
      ELSE IF ~( /\ HexDecodeOK(probe.msg.Sum)
                 /\ Len(HexDecode(probe.msg.Sum)) = DigestLen ) THEN ErrHex
      ELSE IF HexDecode(probe.msg.Sum) /= ProbeDigest THEN ErrChecksum
      ELSE ErrNil

\* C15, amended: verify reports the first failing check of: older than ttl
\* (expired, whatever the signature); signature text that is not hex, i.e.
\* of odd length or with a character that is no hex digit (malformed);
\* digest mismatch, which includes hex text of any other length than that
\* of a digest, the empty text too (invalid); else nil.
C15_Amended ==
  probe.res /= "none" =>
    /\ probe.res =
         IF probe.at - probe.msg.Created > probe.ttl THEN ErrExpired
         ELSE IF ~HexDecodeOK(probe.msg.Sum) THEN ErrHex
         ELSE IF HexDecode(probe.msg.Sum) /= ProbeDigest THEN ErrChecksum
         ELSE ErrNil
    /\ ( /\ probe.at - probe.msg.Created <= probe.ttl
         /\ HexDecodeOK(probe.msg.Sum)
         /\ Len(HexDecode(probe.msg.Sum)) /= DigestLen )
       => probe.res = ErrChecksum

\* a fresh log entry whose Sum is the hex of one byte was refused as invalid
C15_Witness ==
  /\ probe.kind = "log"
  /\ probe.op = "badsum"
  /\ probe.msg.Sum = <<97, 98>>
  /\ probe.at - probe.msg.Created <= probe.ttl
  /\ probe.res = ErrChecksum

\* C19 as stated: the signature of a log entry never verifies for a command
\* and the signature of a command never for a log entry: no log entry and
\* command with one Created make signLog and signCmd write the same bytes.
C19_DomainSeparation ==
  (probe.op = "crossed" /\ probe.res /= "none") => probe.res /= ErrNil

\* C20 as stated: over any sequence of accepted POST /cmd requests the
\* Created of the command in the slot never decreases.
C20_NoRegression ==
  [][(payload /= EmptyBody /\ payload' /= EmptyBody) =>
       DecodeCmd(payload').Created >= DecodeCmd(payload).Created]_vars

\* the step of C20, amended
C20_Step ==
  (resp' /= resp /\ resp'.op = "POST /cmd" /\ resp'.status = StatusOK) =>
    /\ payload' = MarshalCmd(DecodeCmd(resp'.req))
    /\ resp'.at - DecodeCmd(payload').Created <= RelayTTLTicks

\* C20, amended: over any sequence of POST /cmd requests handled one after
\* the other, every accepted command replaces the one in the slot, whatever
\* the two Created stamps are, so the Created in the slot can decrease; what
\* is bounded is the age of a command when it is stored: at most 200ms.
C20_Amended == [][C20_Step]_vars

\* a command stamped 200ms before the one in the slot has replaced it
C20_Witness ==
  /\ Len(accepted) = 2
  /\ accepted[2].Created = accepted[1].Created - RelayTTLTicks
  /\ payload = MarshalCmd(accepted[2])
  /\ resp.op = "GET"
  /\ resp.body = payload

\* executions i < j of one session ran commands with the same signature bytes
SameSignature(i, j) ==
  HexDecode(executed[i].c.Sum) = HexDecode(executed[j].c.Sum)

\* C18 as stated: in one polling session no signed command, identified by
\* its signature bytes, is executed more than once, whatever the sequence of
\* GET answers is (A, B, A included).
C18_AtMostOnce ==
  \A i \in 1..Len(executed) : \A j \in (i + 1)..Len(executed) :
    ~SameSignature(i, j)

\* C18, amended: in one polling session a signed command is never executed
\* twice in a row, and each time it is executed it is at most one poll
\* interval old; it is executed again after another command was executed
\* in between exactly when it is fetched again while still that fresh,
\* which takes a Created stamped at least one poll interval after the
\* instant of its first execution; a command stamped earlier than that is
\* executed at most once.
C18_Amended ==
  /\ \A i \in 1..Len(executed) :
       executed[i].at - executed[i].c.Created <= PollTicks
  /\ \A i \in 1..Len(executed) : \A j \in (i + 1)..Len(executed) :
       SameSignature(i, j) =>
         /\ \E k \in (i + 1)..(j - 1) : ~SameSignature(i, k)
         /\ executed[j].at - executed[i].at >= 2 * PollTicks
         /\ executed[j].c.Created - executed[i].at >= PollTicks
  /\ \A i \in 1..Len(executed) : \A j \in (i + 1)..Len(executed) :
       executed[i].c.Created < executed[i].at + PollTicks =>
         executed[j].c /= executed[i].c

\* command A was executed, then B, then A again
C18_Witness ==
  /\ Len(executed) = 3
  /\ executed[3].c = executed[1].c
  /\ executed[2].c /= executed[1].c
  /\ payload = MarshalCmd(executed[1].c)

\* handler g has answered a request
Answered(g) == goroutine[g].pc = "done"

\* C11 as stated: reads and writes of the stored payload by handlers that
\* run at once are serialized, so every GET answers with the empty payload
\* or with the complete payload of one accepted command, and between two
\* writes the slot holds one complete payload.
C11_Serialized ==
  /\ \A g \in Goroutines :
       (Answered(g) /\ goroutine[g].op = "GET") =>
         \/ goroutine[g].body = EmptyBody
         \/ \E i \in 1..Len(accepted) :
              goroutine[g].body = MarshalCmd(accepted[i])
  /\ (\A g \in Goroutines : goroutine[g].pc /= "store") =>
       payloadLen = JSONLen(payload)

\* what the handler answers to the request when it runs alone
AloneStatus(h) ==
  IF h.op = "POST /cmd" THEN handlePostCmd(h.req, payload, now).status
  ELSE handlePostLog(h.req, now).status

\* C12 as stated: the relay's hasher is never used by two handlers at once,
\* so every verify returns what it returns when run alone: a validly signed
\* fresh message is never refused and an invalidly signed one never accepted
\* because of another request.
C12_HasherExclusive ==
  \A g \in Goroutines :
    (Answered(g) /\ goroutine[g].op \in {"POST /cmd", "POST /log"}) =>
      goroutine[g].status = AloneStatus(goroutine[g])

====
